---- MODULE Spec2Model ----
(***************************************************************************)
(* A model of wxm::ThreadPool (src/src/ThreadPool.cpp, src/src/ThreadPool.h *)
(* and src/src/Task.h): the bounded priority queue of tasks, the worker    *)
(* loop process_task, submit_task, the auto expand / reduce of the worker  *)
(* registry and the destructor.                                            *)
(*                                                                         *)
(* Threads are the submitters, the workers and the thread that runs the    *)
(* destructor.  tasksMutex_ and threadsMutex_ are modelled by their holder.*)
(* A critical section that neither blocks nor calls out is one action (it  *)
(* is atomic for everything the mutex protects, and it reads the atomic    *)
(* stopFlag_ once); a section in which the thread runs a task body, or     *)
(* that is entered through a blocking lock() of threadsMutex_, keeps the   *)
(* mutex over several actions.  A wait_for may time out at any moment.     *)
(* The behaviours end when the destructor returns or the process is        *)
(* terminated: the pool no longer exists after that.                       *)
(***************************************************************************)
EXTENDS Integers, Sequences, FiniteSets, TLC

\* ---------------------------------------------------------------- bounds
\* Number of submit_task calls made in a behaviour.
MaxTasks == 2
\* Largest queue capacity handed to the constructor (maxTasksSize).
MaxCapacity == 1
\* The threads that call submit_task.
Submitters == {"s1", "s2"}
\* Identities of worker threads, in the order in which they are handed out;
\* the identity of a thread that has ended and left the registry is used again.
WorkerSeq == <<"w1", "w2", "w3">>
WorkerIds == {WorkerSeq[i] : i \in 1 .. Len(WorkerSeq)}
\* thread counts a caller may ask the constructor for.
RequestedSizes == 0 .. 3

\* ------------------------------------------------------ program constants
\* std::thread::hardware_concurrency() of the machine.
HardwareSize == 1
\* INT_MIN, the priority of a default-constructed (empty) Task.
IntMin == -2147483647 - 1
\* The priority of a Task built without one (Task(func, priority = 0)).
DefaultPriority == 0

\* Priorities a caller passes: none (the default) or an explicit int.
Priorities == {IntMin, DefaultPriority, 1}

\* The priorities of the scenario of SingleSpec, in the order of submission.
Script == <<5, 1, 5, 3>>

TaskIds == 1 .. (IF MaxTasks > Len(Script) THEN MaxTasks ELSE Len(Script))
NoTask == 0
\* A std::thread that holds no thread (moved from, joined or detached).
NoThread == "nothread"
\* Position of a worker identity no running thread has.
Free == "free"

VARIABLES
    stopFlag,      \* stopFlag_
    autoScale,     \* openAutoExpandReduce_
    maxTasksSize,  \* maxTasksSize_
    tasks,         \* tasks_: ids of the Tasks in the priority queue
    priority,      \* priority_ of each Task
    timestamp,     \* timestamp_ of each Task
    clock,         \* last value steady_clock::now() returned
    nextId,        \* id of the next packaged_task a submit_task call makes
    handle,        \* state of the future of each packaged_task
    runs,          \* how often each task body was invoked
    threads,       \* threads_: the joinable handle (worker id) in each slot
    wpc,           \* position of each worker thread in process_task
    wtask,         \* the local `task` of each worker
    spc,           \* position of each submitter in submit_task
    scur,          \* the packaged_task of the submit_task call in progress
    tasksMutex,    \* holder of tasksMutex_
    threadsMutex,  \* holder of threadsMutex_
    dpc,           \* position of the destructor
    didx,          \* destructor: slot the range-for is at
    dend,          \* destructor: threads_.end() as taken when the loop began
    dtarget,       \* destructor: thread that join() waits for
    stopQueue,     \* history: the tasks that were queued when stopFlag_ was set
    logging,       \* whether this behaviour keeps the log hist
    hist           \* log: <<"push", task, timestamp>> and <<"pop", task>>

vars == <<stopFlag, autoScale, maxTasksSize, tasks, priority, timestamp,
          clock, nextId, handle, runs, threads, wpc, wtask, spc, scur,
          tasksMutex, threadsMutex, dpc, didx, dend, dtarget, stopQueue,
          logging, hist>>

\* ------------------------------------------------------------- Task.h
\* A variant of operator< that puts the later of two tasks of equal priority
\* first.
LessLifo(a, b) ==
    IF priority[a] # priority[b]
    THEN priority[a] < priority[b]
    ELSE timestamp[a] < timestamp[b]

\* A variant of operator< that compares the priority only.
LessPriorityOnly(a, b) == priority[a] < priority[b]

\* Task::operator<: lower priority first; on equal priority the task whose
\* timestamp is not smaller first.
Less(a, b) ==
    IF priority[a] # priority[b]
    THEN priority[a] < priority[b]
    ELSE ~(timestamp[a] < timestamp[b])

\* std::priority_queue<Task>::top(): the front of a max-heap built with
\* operator<: no other element is strictly after it in that order.
IsTop(q, t) ==
    /\ t \in q
    /\ \A u \in q \ {t} : (~Less(t, u)) \/ Less(u, t)

\* A variant of the dequeue that reads top() and leaves out pop().
TopWithoutPop(q, t) == q

\* tasks_.pop()
PopTask(q, t) == q \ {t}

\* tasks.push(task)
PushTask(q, t) == q \cup {t}

\* ---------------------------------------------------------- constructor
\* The constructor's clamp of threadsSize to [1, 2 * hardwareSize].
MaxThreads == 2 * HardwareSize
ClampSize(n) == IF n < 1 THEN 1 ELSE IF n > MaxThreads THEN MaxThreads ELSE n

InitWith(n, cap, auto, log) ==
    /\ stopFlag = FALSE
    /\ autoScale = auto
    /\ maxTasksSize = cap
    /\ logging = log
    /\ stopQueue = {}
    /\ tasks = {}
    /\ priority = [t \in TaskIds |-> DefaultPriority]
    /\ timestamp = [t \in TaskIds |-> 0]
    /\ clock = 0
    /\ nextId = 1
    /\ handle = [t \in TaskIds |-> "none"]
    /\ runs = [t \in TaskIds |-> 0]
    /\ threads = [i \in 1 .. ClampSize(n) |-> WorkerSeq[i]]
    /\ wpc = [w \in WorkerIds |->
                IF \E i \in 1 .. ClampSize(n) : WorkerSeq[i] = w
                THEN "lock" ELSE Free]
    /\ wtask = [w \in WorkerIds |-> NoTask]
    /\ spc = [s \in Submitters |-> "idle"]
    /\ scur = [s \in Submitters |-> NoTask]
    /\ tasksMutex = NoThread
    /\ threadsMutex = NoThread
    /\ dpc = "live"
    /\ didx = 0
    /\ dend = 0
    /\ dtarget = NoThread
    /\ hist = <<>>

Init ==
    \E n \in RequestedSizes, cap \in 1 .. MaxCapacity, auto \in BOOLEAN :
        InitWith(n, cap, auto, FALSE)

\* The pool object exists: the destructor has not returned and the process
\* has not been terminated.
Alive == dpc \notin {"done", "aborted"}

\* ------------------------------------------------- condition variables
\* notEmpty_.notify_one(): one of the workers blocked in wait_for, if any,
\* is woken and has to take tasksMutex_ again.
WokenWorkers(pcs) ==
    IF \E w \in WorkerIds : pcs[w] = "sleep"
    THEN {[pcs EXCEPT ![w] = "lock"] : w \in {x \in WorkerIds : pcs[x] = "sleep"}}
    ELSE {pcs}

\* notFull_.notify_one(): the same for the submitters blocked in wait_for.
WokenSubmitters(pcs) ==
    IF \E s \in Submitters : pcs[s] = "sleep"
    THEN {[pcs EXCEPT ![s] = "lock"] : s \in {x \in Submitters : pcs[x] = "sleep"}}
    ELSE {pcs}

\* The predicate of wait_not_empty_or_stop.
NotEmptyOrStop == stopFlag \/ tasks # {}

\* tasks.size() < maxTasksSize
NotFull == Cardinality(tasks) < maxTasksSize

\* The predicate of the submitter's wait_for (wait_not_full_or_stop).
NotFullOrStop == NotFull \/ stopFlag

\* A variant in which destroying a Task leaves its shared state untouched.
DestroyedUntouched(f, ts, init) == f

\* ~Task(): the fields of the Task no longer exist.
Destroyed(f, ts, init) == [t \in TaskIds |-> IF t \in ts THEN init ELSE f[t]]

\* ------------------------------------------- process_task (worker loop)
\* The worker takes tasksMutex_ (at the top of the loop, or inside wait_for
\* after a notify or a timeout) and finds the queue non-empty: top(), pop().
\* It keeps the mutex: the unique_lock lives to the end of the iteration.
WPop(w) ==
    /\ Alive
    /\ wpc[w] \in {"lock", "sleep"}
    /\ tasksMutex = NoThread
    /\ tasks # {}
    /\ \E t \in tasks :
        /\ IsTop(tasks, t)
        /\ tasks' = PopTask(tasks, t)
        /\ wtask' = [wtask EXCEPT ![w] = t]
        /\ hist' = IF logging THEN Append(hist, <<"pop", t>>) ELSE hist
    /\ wpc' = [wpc EXCEPT ![w] = "popped"]
    /\ tasksMutex' = w
    /\ UNCHANGED <<stopFlag, autoScale, maxTasksSize, logging, stopQueue, priority, timestamp, clock, nextId,
                   handle, runs, threads, spc, scur, threadsMutex, dpc, didx,
                   dend, dtarget>>

\* A variant of the stop branch that returns as soon as stopFlag_ is set,
\* whatever the queue holds.
WStopReturnAtOnce(w) ==
    /\ Alive
    /\ wpc[w] \in {"lock", "sleep"}
    /\ tasksMutex = NoThread
    /\ stopFlag
    /\ wpc' = [wpc EXCEPT ![w] = "exited"]
    /\ UNCHANGED <<stopFlag, autoScale, maxTasksSize, logging, stopQueue, hist, tasks, priority, timestamp, clock,
                   nextId, handle, runs, threads, wtask, spc, scur,
                   tasksMutex, threadsMutex, dpc, didx, dend, dtarget>>

\* The wait is over because of stopFlag_ and the queue is empty: return.
WStopReturn(w) ==
    /\ Alive
    /\ wpc[w] \in {"lock", "sleep"}
    /\ tasksMutex = NoThread
    /\ tasks = {}
    /\ stopFlag
    /\ wpc' = [wpc EXCEPT ![w] = "exited"]
    /\ UNCHANGED <<stopFlag, autoScale, maxTasksSize, logging, stopQueue, hist, tasks, priority, timestamp, clock,
                   nextId, handle, runs, threads, wtask, spc, scur,
                   tasksMutex, threadsMutex, dpc, didx, dend, dtarget>>

\* The predicate is false: wait_for releases the mutex and blocks.
WSleep(w) ==
    /\ Alive
    /\ wpc[w] = "lock"
    /\ tasksMutex = NoThread
    /\ ~NotEmptyOrStop
    /\ wpc' = [wpc EXCEPT ![w] = "sleep"]
    /\ UNCHANGED <<stopFlag, autoScale, maxTasksSize, logging, stopQueue, hist, tasks, priority, timestamp, clock,
                   nextId, handle, runs, threads, wtask, spc, scur,
                   tasksMutex, threadsMutex, dpc, didx, dend, dtarget>>

\* A variant of the timeout branch that calls reduce_thread_pool whether or
\* not the pool scales.
WTimedOutReducing(w) ==
    /\ Alive
    /\ wpc[w] = "sleep"
    /\ tasksMutex = NoThread
    /\ ~NotEmptyOrStop
    /\ wpc' = [wpc EXCEPT ![w] = "reduce"]
    /\ UNCHANGED <<stopFlag, autoScale, maxTasksSize, logging, stopQueue, hist, tasks, priority, timestamp, clock,
                   nextId, handle, runs, threads, wtask, spc, scur,
                   tasksMutex, threadsMutex, dpc, didx, dend, dtarget>>

\* maxWaitTime_ has passed for a blocked worker, it has the mutex again and
\* the predicate is still false (ready == false): unlock, reduce_thread_pool
\* if the pool scales, and break out of the loop.
WTimedOut(w) ==
    /\ Alive
    /\ wpc[w] = "sleep"
    /\ tasksMutex = NoThread
    /\ ~NotEmptyOrStop
    /\ wpc' = [wpc EXCEPT ![w] = IF autoScale THEN "reduce" ELSE "exited"]
    /\ UNCHANGED <<stopFlag, autoScale, maxTasksSize, logging, stopQueue, hist, tasks, priority, timestamp, clock,
                   nextId, handle, runs, threads, wtask, spc, scur,
                   tasksMutex, threadsMutex, dpc, didx, dend, dtarget>>

\* if (task.get_priority() != INT_MIN) { notFull_.notify_one(); task.run(); }
\* A task of priority INT_MIN is not run: the iteration ends, the Task and
\* with it the packaged_task are destroyed (the future gets broken_promise)
\* and the mutex is released.
WDispatch(w) ==
    /\ Alive
    /\ wpc[w] = "popped"
    /\ IF priority[wtask[w]] # IntMin
       THEN /\ spc' \in WokenSubmitters(spc)
            /\ runs' = [runs EXCEPT ![wtask[w]] = @ + 1]
            /\ wpc' = [wpc EXCEPT ![w] = "running"]
            /\ UNCHANGED <<handle, wtask, tasksMutex, priority, timestamp>>
       ELSE /\ handle' = [handle EXCEPT ![wtask[w]] = "broken"]
            /\ priority' = Destroyed(priority, {wtask[w]}, DefaultPriority)
            /\ timestamp' = Destroyed(timestamp, {wtask[w]}, 0)
            /\ wtask' = [wtask EXCEPT ![w] = NoTask]
            /\ wpc' = [wpc EXCEPT ![w] = "lock"]
            /\ tasksMutex' = NoThread
            /\ UNCHANGED <<spc, runs>>
    /\ UNCHANGED <<stopFlag, autoScale, maxTasksSize, logging, stopQueue, hist, tasks, clock, nextId, threads, scur,
                   threadsMutex, dpc, didx, dend, dtarget>>

\* What the packaged_task stores in the shared state when the body ends:
\* the value it returned or the exception it threw.
Outcomes == {"value", "error"}

\* A variant in which the exception of a task body leaves process_task: the
\* worker's thread ends.
WFinishUnwinding(w) ==
    /\ Alive
    /\ wpc[w] = "running"
    /\ \E outcome \in Outcomes :
        /\ handle' = [handle EXCEPT ![wtask[w]] = outcome]
        /\ wpc' = [wpc EXCEPT ![w] = IF outcome = "error" THEN "exited" ELSE "lock"]
    /\ priority' = Destroyed(priority, {wtask[w]}, DefaultPriority)
    /\ timestamp' = Destroyed(timestamp, {wtask[w]}, 0)
    /\ wtask' = [wtask EXCEPT ![w] = NoTask]
    /\ tasksMutex' = NoThread
    /\ UNCHANGED <<stopFlag, autoScale, maxTasksSize, logging, stopQueue, hist, tasks, clock, nextId, runs, threads,
                   spc, scur, threadsMutex, dpc, didx, dend, dtarget>>

\* The task body ends, by a return or by an exception: the packaged_task
\* stores the outcome in the shared state (nothing is thrown into run());
\* the iteration ends and releases tasksMutex_.
WFinish(w) ==
    /\ Alive
    /\ wpc[w] = "running"
    /\ \E outcome \in Outcomes :
        handle' = [handle EXCEPT ![wtask[w]] = outcome]
    /\ priority' = Destroyed(priority, {wtask[w]}, DefaultPriority)
    /\ timestamp' = Destroyed(timestamp, {wtask[w]}, 0)
    /\ wtask' = [wtask EXCEPT ![w] = NoTask]
    /\ wpc' = [wpc EXCEPT ![w] = "lock"]
    /\ tasksMutex' = NoThread
    /\ UNCHANGED <<stopFlag, autoScale, maxTasksSize, logging, stopQueue, hist, tasks, clock, nextId, runs, threads,
                   spc, scur, threadsMutex, dpc, didx, dend, dtarget>>

\* ------------------------------------------------- reduce_thread_pool
\* Index of the first slot holding thread w, 0 if there is none.
IndexOf(reg, w) ==
    IF \E i \in 1 .. Len(reg) : reg[i] = w
    THEN CHOOSE i \in 1 .. Len(reg) :
            reg[i] = w /\ \A j \in 1 .. (i - 1) : reg[j] # w
    ELSE 0

\* threads_.erase(threads_.begin() + index)
EraseAt(reg, i) == [k \in 1 .. (Len(reg) - 1) |-> IF k < i THEN reg[k] ELSE reg[k + 1]]

\* A variant of reduce_thread_pool without the floor test.
NeverAtFloor(reg) == FALSE

\* The floor test of reduce_thread_pool: threads_.size() <= 1.
AtFloor(reg) == Len(reg) <= 1

WReduceLock(w) ==
    /\ Alive
    /\ wpc[w] = "reduce"
    /\ threadsMutex = NoThread
    /\ threadsMutex' = w
    /\ wpc' = [wpc EXCEPT ![w] = "reducing"]
    /\ UNCHANGED <<stopFlag, autoScale, maxTasksSize, logging, stopQueue, hist, tasks, priority, timestamp, clock,
                   nextId, handle, runs, threads, wtask, spc, scur,
                   tasksMutex, dpc, didx, dend, dtarget>>

\* Under threadsMutex_: nothing at the floor or when the thread is not in
\* the registry (the caller then breaks out of its loop); otherwise the
\* handle is moved out of its slot and the slot erased.
WReduceBody(w) ==
    /\ Alive
    /\ wpc[w] = "reducing"
    /\ IF AtFloor(threads) \/ IndexOf(threads, w) = 0
       THEN /\ wpc' = [wpc EXCEPT ![w] = "exited"]
            /\ UNCHANGED threads
       ELSE /\ threads' = EraseAt(threads, IndexOf(threads, w))
            /\ wpc' = [wpc EXCEPT ![w] = "detach"]
    /\ threadsMutex' = NoThread
    /\ UNCHANGED <<stopFlag, autoScale, maxTasksSize, logging, stopQueue, hist, tasks, priority, timestamp, clock,
                   nextId, handle, runs, wtask, spc, scur, tasksMutex, dpc,
                   didx, dend, dtarget>>

\* t.detach(), the unlocked read of threads_.size() for the message, return
\* and break: the thread ends.
WDetach(w) ==
    /\ Alive
    /\ wpc[w] = "detach"
    /\ wpc' = [wpc EXCEPT ![w] = IF dtarget = w THEN "exited" ELSE Free]
    /\ UNCHANGED <<stopFlag, autoScale, maxTasksSize, logging, stopQueue, hist, tasks, priority, timestamp, clock,
                   nextId, handle, runs, threads, wtask, spc, scur,
                   tasksMutex, threadsMutex, dpc, didx, dend, dtarget>>

\* ------------------------------------------------------- submit_task
\* Task(func, priority): the timestamp is steady_clock::now(), which has not
\* gone back since the last Task was built; then tasks.push(task).
PushNew(t) ==
    \E ts \in {clock, clock + 1} :
        /\ timestamp' = [timestamp EXCEPT ![t] = ts]
        /\ clock' = ts
        /\ tasks' = PushTask(tasks, t)
        /\ handle' = [handle EXCEPT ![t] = "pending"]
        /\ hist' = IF logging THEN Append(hist, <<"push", t, ts>>) ELSE hist

\* A variant of the retWait branch that drops the task without a word when
\* the queue is full.
AcceptOrDrop(s, t, p) ==
    IF NotFull
    THEN /\ PushNew(t)
         /\ priority' = [priority EXCEPT ![t] = p]
         /\ wpc' \in WokenWorkers(wpc)
    ELSE /\ priority' = Destroyed(priority, {t}, DefaultPriority)
         /\ UNCHANGED <<handle, timestamp, clock, tasks, wpc, hist>>

\* The submitter holds tasksMutex_ and wait_for's predicate is true
\* (retWait): push if there is room, else throw "submit_task on stopped
\* ThreadPool!".  After a push: unlock, conditionProcess.notify_one(), return.
Accept(s, t, p) ==
    IF NotFull
    THEN /\ PushNew(t)
         /\ priority' = [priority EXCEPT ![t] = p]
         /\ wpc' \in WokenWorkers(wpc)
    ELSE /\ handle' = [handle EXCEPT ![t] = "rejected"]
         /\ priority' = Destroyed(priority, {t}, DefaultPriority)
         /\ UNCHANGED <<timestamp, clock, tasks, wpc, hist>>

\* A submit_task call: the packaged_task and its future are made, the mutex
\* is taken and wait_for evaluates its predicate for the first time.
SubmitCall(s, p) ==
    /\ Alive
    /\ spc[s] = "idle"
    /\ nextId \in TaskIds
    /\ tasksMutex = NoThread
    /\ nextId' = nextId + 1
    /\ IF NotFullOrStop
       THEN /\ Accept(s, nextId, p)
            /\ UNCHANGED <<spc, scur>>
       ELSE /\ spc' = [spc EXCEPT ![s] = "sleep"]
            /\ scur' = [scur EXCEPT ![s] = nextId]
            /\ priority' = [priority EXCEPT ![nextId] = p]
            /\ UNCHANGED <<timestamp, clock, tasks, handle, wpc, hist>>
    /\ UNCHANGED <<stopFlag, autoScale, maxTasksSize, logging, stopQueue, runs, threads, wtask, tasksMutex,
                   threadsMutex, dpc, didx, dend, dtarget>>

\* A notified submitter takes the mutex again; wait_for evaluates its
\* predicate again.
SRecheck(s) ==
    /\ Alive
    /\ spc[s] = "lock"
    /\ tasksMutex = NoThread
    /\ IF NotFullOrStop
       THEN /\ Accept(s, scur[s], priority[scur[s]])
            /\ spc' = [spc EXCEPT ![s] = "idle"]
            /\ scur' = [scur EXCEPT ![s] = NoTask]
       ELSE /\ spc' = [spc EXCEPT ![s] = "sleep"]
            /\ UNCHANGED <<scur, priority, timestamp, clock, tasks, handle,
                           wpc, hist>>
    /\ UNCHANGED <<stopFlag, autoScale, maxTasksSize, logging, stopQueue, nextId, runs, threads, wtask,
                   tasksMutex, threadsMutex, dpc, didx, dend, dtarget>>

\* maxWaitTime has passed for a blocked submitter and it has the mutex
\* again: wait_for returns the predicate.  True: as Accept.
\* False (the else branch of submit_task): the task is pushed all the same,
\* the mutex released, and expand_thread_pool called if the pool scales.
STimedOut(s) ==
    /\ Alive
    /\ spc[s] = "sleep"
    /\ tasksMutex = NoThread
    /\ IF NotFullOrStop
       THEN /\ Accept(s, scur[s], priority[scur[s]])
            /\ spc' = [spc EXCEPT ![s] = "idle"]
            /\ scur' = [scur EXCEPT ![s] = NoTask]
       ELSE /\ PushNew(scur[s])
            /\ UNCHANGED priority
            /\ scur' = [scur EXCEPT ![s] = NoTask]
            /\ IF autoScale
               THEN /\ spc' = [spc EXCEPT ![s] = "expand"]
                    /\ UNCHANGED wpc
               ELSE /\ spc' = [spc EXCEPT ![s] = "idle"]
                    /\ wpc' \in WokenWorkers(wpc)
    /\ UNCHANGED <<stopFlag, autoScale, maxTasksSize, logging, stopQueue, nextId, runs, threads, wtask,
                   tasksMutex, threadsMutex, dpc, didx, dend, dtarget>>

\* ------------------------------------------------- expand_thread_pool
\* A variant of expand_thread_pool that always finds the pool at its ceiling.
AlwaysAtCeiling(reg) == TRUE

\* The ceiling test of expand_thread_pool: threads_.size() >= 2 * hardwareSize.
AtCeiling(reg) == Len(reg) >= MaxThreads

\* Worker identities no running thread has.
FreeSlots == {i \in 1 .. Len(WorkerSeq) : wpc[WorkerSeq[i]] = Free}
NewWorker == WorkerSeq[CHOOSE i \in FreeSlots : \A j \in FreeSlots : i <= j]

SExpandLock(s) ==
    /\ Alive
    /\ spc[s] = "expand"
    /\ threadsMutex = NoThread
    /\ threadsMutex' = s
    /\ spc' = [spc EXCEPT ![s] = "expanding"]
    /\ UNCHANGED <<stopFlag, autoScale, maxTasksSize, logging, stopQueue, hist, tasks, priority, timestamp, clock,
                   nextId, handle, runs, threads, wpc, wtask, scur,
                   tasksMutex, dpc, didx, dend, dtarget>>

\* Under threadsMutex_: nothing at the ceiling; otherwise a thread running
\* process_task is started and pushed to threads_.  Then submit_task goes on:
\* conditionProcess.notify_one() and return.
SExpandBody(s) ==
    /\ Alive
    /\ spc[s] = "expanding"
    /\ AtCeiling(threads) \/ FreeSlots # {}
    /\ IF AtCeiling(threads)
       THEN /\ wpc' \in WokenWorkers(wpc)
            /\ UNCHANGED threads
       ELSE /\ threads' = Append(threads, NewWorker)
            /\ wpc' \in WokenWorkers([wpc EXCEPT ![NewWorker] = "lock"])
    /\ threadsMutex' = NoThread
    /\ spc' = [spc EXCEPT ![s] = "idle"]
    /\ UNCHANGED <<stopFlag, autoScale, maxTasksSize, logging, stopQueue, hist, tasks, priority, timestamp, clock,
                   nextId, handle, runs, wtask, scur, tasksMutex, dpc, didx,
                   dend, dtarget>>

\* ------------------------------------------------------- ~ThreadPool
\* stopFlag_ = true
DStart ==
    /\ dpc = "live"
    /\ stopFlag' = TRUE
    /\ stopQueue' = tasks
    /\ dpc' = "notify"
    /\ UNCHANGED <<autoScale, maxTasksSize, logging, hist, tasks, priority, timestamp, clock, nextId,
                   handle, runs, threads, wpc, wtask, spc, scur, tasksMutex,
                   threadsMutex, didx, dend, dtarget>>

\* notEmpty_.notify_all(); the range-for takes threads_.begin() and
\* threads_.end() (threadsMutex_ is not taken).
DNotify ==
    /\ dpc = "notify"
    /\ wpc' = [w \in WorkerIds |-> IF wpc[w] = "sleep" THEN "lock" ELSE wpc[w]]
    /\ didx' = 1
    /\ dend' = Len(threads)
    /\ dpc' = "loop"
    /\ UNCHANGED <<stopFlag, autoScale, maxTasksSize, logging, stopQueue, hist, tasks, priority, timestamp, clock,
                   nextId, handle, runs, threads, wtask, spc, scur,
                   tasksMutex, threadsMutex, dtarget>>

\* What the destructor's reference `thread` to slot i reads: the handle in
\* the slot; a slot that an erase has left behind the end of the vector
\* holds a moved-from, destroyed std::thread.
SlotAt(reg, i) == IF i <= Len(reg) THEN reg[i] ELSE NoThread

\* if (thread.joinable()) for the slot the loop is at.
DCheck ==
    /\ dpc = "loop"
    /\ didx <= dend
    /\ IF SlotAt(threads, didx) # NoThread
       THEN /\ dpc' = "prejoin"
            /\ UNCHANGED didx
       ELSE /\ didx' = didx + 1
            /\ UNCHANGED dpc
    /\ UNCHANGED <<stopFlag, autoScale, maxTasksSize, logging, stopQueue, hist, tasks, priority, timestamp, clock,
                   nextId, handle, runs, threads, wpc, wtask, spc, scur,
                   tasksMutex, threadsMutex, dend, dtarget>>

\* thread.join() is called: it reads the handle in the slot again.  If
\* reduce_thread_pool has emptied the slot since joinable(), join() throws
\* std::system_error out of the destructor and std::terminate ends the
\* process.
DJoinCall ==
    /\ dpc = "prejoin"
    /\ IF SlotAt(threads, didx) = NoThread
       THEN /\ dpc' = "aborted"
            /\ UNCHANGED dtarget
       ELSE /\ dtarget' = SlotAt(threads, didx)
            /\ dpc' = "joining"
    /\ UNCHANGED <<stopFlag, autoScale, maxTasksSize, logging, stopQueue, hist, tasks, priority, timestamp, clock,
                   nextId, handle, runs, threads, wpc, wtask, spc, scur,
                   tasksMutex, threadsMutex, didx, dend>>

\* The joined thread has ended: join() returns and empties the handle its
\* reference points at (the slot, whatever it holds by now).
DJoinReturn ==
    /\ dpc = "joining"
    /\ wpc[dtarget] = "exited"
    /\ threads' = IF didx <= Len(threads)
                  THEN [threads EXCEPT ![didx] = NoThread]
                  ELSE threads
    /\ wpc' = [wpc EXCEPT ![dtarget] = Free]
    /\ dtarget' = NoThread
    /\ didx' = didx + 1
    /\ dpc' = "loop"
    /\ UNCHANGED <<stopFlag, autoScale, maxTasksSize, logging, stopQueue, hist, tasks, priority, timestamp, clock,
                   nextId, handle, runs, wtask, spc, scur, tasksMutex,
                   threadsMutex, dend>>

\* The loop is over and the destructor's body returns; the members are
\* destroyed.  tasks_: every Task still queued is destroyed and its future
\* gets broken_promise.  threads_: a std::thread that is still joinable
\* calls std::terminate.
DFinish ==
    /\ dpc = "loop"
    /\ didx > dend
    /\ handle' = Destroyed(handle, tasks, "broken")
    /\ priority' = Destroyed(priority, tasks, DefaultPriority)
    /\ timestamp' = Destroyed(timestamp, tasks, 0)
    /\ tasks' = {}
    /\ dpc' = IF \E i \in 1 .. Len(threads) : threads[i] # NoThread
              THEN "aborted" ELSE "done"
    /\ UNCHANGED <<stopFlag, autoScale, maxTasksSize, logging, stopQueue, hist, clock, nextId, runs, threads, wpc,
                   wtask, spc, scur, tasksMutex, threadsMutex, didx, dend,
                   dtarget>>

\* ---------------------------------------------------- specifications
WorkerStep(w) ==
    \/ WPop(w)
    \/ WStopReturn(w)
    \/ WSleep(w)
    \/ WTimedOut(w)
    \/ WDispatch(w)
    \/ WFinish(w)
    \/ WReduceLock(w)
    \/ WReduceBody(w)
    \/ WDetach(w)

SubmitterStep(s) ==
    \/ SRecheck(s)
    \/ STimedOut(s)
    \/ SExpandLock(s)
    \/ SExpandBody(s)

DestructorStep ==
    \/ DNotify
    \/ DCheck
    \/ DJoinCall
    \/ DJoinReturn
    \/ DFinish

\* A submit_task call by one of the submitters, with or without a priority.
Submit ==
    /\ nextId <= MaxTasks
    /\ \E s \in Submitters, p \in Priorities : SubmitCall(s, p)

Next ==
    \/ \E w \in WorkerIds : WorkerStep(w)
    \/ \E s \in Submitters : SubmitterStep(s)
    \/ Submit
    \/ DStart
    \/ DestructorStep

Spec == Init /\ [][Next]_vars

\* Every thread that can take a step eventually takes one, and a wait_for
\* that is not notified times out.  When submit_task is called and when the
\* pool is destroyed is up to the caller.
Fairness ==
    /\ \A w \in WorkerIds : WF_vars(WorkerStep(w))
    /\ \A s \in Submitters : WF_vars(SubmitterStep(s))
    /\ WF_vars(DestructorStep)

FairSpec == Spec /\ Fairness

\* test_thread_pool_priority_schedule: a pool of one worker that does not
\* scale, a queue that holds every task, and one thread that submits the
\* priorities of Script one after another.  The log is kept.
SingleInit == InitWith(1, Len(Script), FALSE, TRUE)

ScriptedSubmit ==
    /\ nextId <= Len(Script)
    /\ SubmitCall("s1", Script[nextId])

SingleNext ==
    \/ ScriptedSubmit
    \/ WPop("w1")
    \/ WSleep("w1")
    \/ WTimedOut("w1")
    \/ WDispatch("w1")
    \/ WFinish("w1")

SingleSpec == SingleInit /\ [][SingleNext]_vars

\* ------------------------------------------- getters called by tasks
\* A task body is the caller's code and may use the pool it runs in.  Here a
\* body calls get_thread_pool_size(): the lock_guard takes threadsMutex_ ...
GetPoolSizeLock(w) ==
    /\ Alive
    /\ wpc[w] = "running"
    /\ threadsMutex = NoThread
    /\ threadsMutex' = w
    /\ wpc' = [wpc EXCEPT ![w] = "getsize"]
    /\ UNCHANGED <<stopFlag, autoScale, maxTasksSize, logging, stopQueue, hist, tasks, priority, timestamp, clock,
                   nextId, handle, runs, threads, wtask, spc, scur,
                   tasksMutex, dpc, didx, dend, dtarget>>

\* ... threads_.size() is read, the lock_guard releases threadsMutex_ and
\* the body goes on.
GetPoolSizeReturn(w) ==
    /\ Alive
    /\ wpc[w] = "getsize"
    /\ threadsMutex' = NoThread
    /\ wpc' = [wpc EXCEPT ![w] = "running"]
    /\ UNCHANGED <<stopFlag, autoScale, maxTasksSize, logging, stopQueue, hist, tasks, priority, timestamp, clock,
                   nextId, handle, runs, threads, wtask, spc, scur,
                   tasksMutex, dpc, didx, dend, dtarget>>

\* The pool with task bodies that may call get_thread_pool_size().
GetterNext ==
    \/ Next
    \/ \E w \in WorkerIds : GetPoolSizeLock(w)
    \/ \E w \in WorkerIds : GetPoolSizeReturn(w)

GetterSpec == Init /\ [][GetterNext]_vars

\* ---------------------------------------------------------- properties
\* The worker that holds task t in its local `task`.
Holders(t) == {w \in WorkerIds : wtask[w] = t}

\* C1: a task is popped from the queue by at most one worker and its body
\* is invoked at most once; two workers never hold the same task, and a task
\* a worker holds or has finished with is not in the queue any more, so it
\* cannot be popped again.
C1_AtMostOnce ==
    /\ \A t \in TaskIds : runs[t] <= 1
    /\ \A t \in TaskIds : Cardinality(Holders(t)) <= 1
    /\ \A w \in WorkerIds : wtask[w] # NoTask => wtask[w] \notin tasks
    /\ \A t \in tasks : handle[t] = "pending" /\ runs[t] = 0

\* Two workers compete for a queue, one of them runs a task it has popped
\* and another task is queued.
C1_Witness ==
    \E w, v \in WorkerIds :
        /\ w # v
        /\ wpc[w] = "running"
        /\ runs[wtask[w]] = 1
        /\ wpc[v] \in {"lock", "sleep"}
        /\ tasks # {}

\* C2 (as far as it concerns a pool nobody destroys): the handle of every
\* accepted task eventually resolves, with a value or an error, unless the
\* destructor has been started.
C2_Claim ==
    \A t \in TaskIds :
        (handle[t] = "pending")
            ~> (handle[t] \in Outcomes \cup {"broken"} \/ dpc # "live")

\* C3: the number of queued tasks is at most the capacity of the queue in
\* every reachable state.
C3_Claim == Cardinality(tasks) <= maxTasksSize

\* C4: every dequeue removes a task that is first among the tasks resident
\* in the queue at that moment: right after the pop (the worker still holds
\* the mutex, so the queue is the one the pop left) no task in the queue has
\* a strictly higher priority, and none of equal priority has a strictly
\* earlier timestamp.
C4_DequeueIsFirst ==
    \A w \in WorkerIds :
        wpc[w] = "popped" =>
            \A u \in tasks :
                /\ ~(priority[u] > priority[wtask[w]])
                /\ ~(priority[u] = priority[wtask[w]]
                        /\ timestamp[u] < timestamp[wtask[w]])

\* A worker has just popped a task and left a later task of the same
\* priority in the queue.
C4_Witness ==
    \E w \in WorkerIds :
        /\ wpc[w] = "popped"
        /\ \E u \in tasks :
            /\ priority[u] = priority[wtask[w]]
            /\ timestamp[u] > timestamp[wtask[w]]

\* What the log says.  Pops: the tasks in the order of their dequeue, which
\* is the order in which a single worker starts them.
IsPop(e) == e[1] = "pop"
IsPush(e) == e[1] = "push"
Pops == LET ids == [i \in 1 .. Len(hist) |-> hist[i][2]]
            popAt == {i \in 1 .. Len(hist) : IsPop(hist[i])}
            Sorted[k \in 0 .. Len(hist)] ==
                IF k = 0 THEN <<>>
                ELSE IF k \in popAt THEN Append(Sorted[k - 1], ids[k])
                     ELSE Sorted[k - 1]
        IN Sorted[Len(hist)]
\* The timestamp the log has for task t.
PushStamp(t) ==
    LET i == CHOOSE j \in 1 .. Len(hist) : IsPush(hist[j]) /\ hist[j][2] = t
    IN hist[i][3]
IsPrefix(a, b) == Len(a) <= Len(b) /\ \A i \in 1 .. Len(a) : a[i] = b[i]
\* The order priority descending, submission ascending, of the tasks of Script.
ScriptOrder == <<1, 3, 4, 2>>
\* Every task of Script was pushed before the first dequeue.
AllQueuedFirst ==
    /\ Len(hist) >= Len(Script)
    /\ \A i \in 1 .. Len(Script) : IsPush(hist[i])
\* The tasks of the log that are in the queue just before event i.
ResidentBefore(i) ==
    {t \in TaskIds :
        /\ \E j \in 1 .. (i - 1) : IsPush(hist[j]) /\ hist[j][2] = t
        /\ ~\E j \in 1 .. (i - 1) : IsPop(hist[j]) /\ hist[j][2] = t}

\* No two tasks of the log have the same timestamp.
DistinctStamps ==
    \A i, j \in 1 .. Len(hist) :
        (i # j /\ IsPush(hist[i]) /\ IsPush(hist[j])) => hist[i][3] # hist[j][3]

\* C5 (as the spec states it, for tasks built at different times): in a
\* single-worker pool the tasks submitted with priorities 5, 1, 5, 3 are
\* started in the order 5, 5, 3, 1, the earlier task of priority 5 before
\* the later one.
C5_Claim == DistinctStamps => IsPrefix(Pops, ScriptOrder)

\* C5 (amended): the tasks are started in the order 5, 5, 3, 1, the earlier
\* priority 5 first, when all four were queued before the worker's first
\* dequeue and the two tasks of priority 5 have different timestamps; in
\* general the order is non-increasing in priority, and ascending in
\* timestamp among equals, only among tasks that were in the queue
\* together: a dequeued task has no lower priority than any task resident at
\* that moment, and no later timestamp than a resident one of its priority.
C5_OrderAmongResident ==
    /\ (AllQueuedFirst /\ PushStamp(1) # PushStamp(3)) => IsPrefix(Pops, ScriptOrder)
    /\ \A i \in 1 .. Len(hist) :
        IsPop(hist[i]) =>
            \A u \in ResidentBefore(i) :
                /\ Script[u] <= Script[hist[i][2]]
                /\ Script[u] = Script[hist[i][2]]
                     => PushStamp(hist[i][2]) <= PushStamp(u)

\* All four tasks were queued before the first dequeue, the two tasks of
\* priority 5 at different times, and the worker has dequeued all of them.
C5_Witness ==
    /\ AllQueuedFirst
    /\ PushStamp(1) # PushStamp(3)
    /\ Pops = ScriptOrder

\* C6: a submit_task call made when stop_flag is set fails and leaves the
\* queue as it was: the task is not enqueued.
C6_Claim ==
    [][(stopFlag /\ nextId' # nextId)
         => (tasks' = tasks /\ handle'[nextId] = "rejected")]_vars

C9_Claim ==
    dpc = "done" =>
        \A w \in WorkerIds : wpc[w] \in {Free, "exited"} /\ wtask[w] = NoTask

\* C10: the destructor, once started, returns: in no reachable state has
\* the destruction ended without the destructor's return (the process
\* terminated inside it).
C10_Claim == dpc # "aborted"

\* C11: a task is pushed only in a state where the queue is strictly below
\* its capacity; a submitter whose wait times out on a full queue does not
\* enqueue.
C11_Claim ==
    [][\A t \in TaskIds :
         (t \notin tasks /\ t \in tasks') => Cardinality(tasks) < maxTasksSize]_vars

\* C12: the size of the worker registry is in [1, 2 * hardware_concurrency]
\* in every reachable state, whatever size the constructor was asked for and
\* however expand and reduce calls interleave.
C12_SizeInRange == Len(threads) >= 1 /\ Len(threads) <= MaxThreads

\* An expand call and a reduce call are in progress at the same time, the
\* registry is at its ceiling and the worker that reduces is in it.
C12_Witness ==
    /\ Len(threads) = MaxThreads
    /\ \E s \in Submitters : spc[s] \in {"expand", "expanding"}
    /\ \E w \in WorkerIds :
        wpc[w] \in {"reduce", "reducing"} /\ IndexOf(threads, w) # 0

\* C13: with auto-scaling disabled no step changes the size of the registry
\* (current_size() stays what it was after construction), and before
\* shutdown no step changes the registry at all, be it a submitter's or a
\* worker's timeout.
C13_RegistryFixed ==
    [][~autoScale =>
         /\ Len(threads') = Len(threads)
         /\ ~stopFlag' => threads' = threads]_vars

\* Auto-scaling is off, the pool is not shut down, a worker's wait has
\* timed out and a submitter's wait has timed out on a full queue.
C13_Witness ==
    /\ ~autoScale
    /\ ~stopFlag
    /\ \E w \in WorkerIds : wpc[w] = "exited"
    /\ Cardinality(tasks) > maxTasksSize

\* C14: with auto-scaling disabled a worker whose wait times out does not
\* exit: until shutdown every worker of the registry is in its loop.
C14_Claim ==
    (~autoScale /\ ~stopFlag) =>
        \A i \in 1 .. Len(threads) : wpc[threads[i]] # "exited"

\* C15: before shutdown begins the pool has a worker that is in its loop or
\* on its way back to it; a worker whose reduce call does nothing at the
\* floor of one stays in its loop.
C15_Claim ==
    (autoScale /\ ~stopFlag) =>
        \E w \in WorkerIds : wpc[w] \notin {Free, "exited", "detach"}

Registered(reg, w) == \E i \in 1 .. Len(reg) : reg[i] = w

\* C17: with auto-scaling enabled a worker whose wait times out on an empty
\* queue calls reduce_thread_pool, and the call, when it finds more than one
\* worker in the registry, removes exactly the caller's entry: the size
\* goes down by one, every other entry stays, the queue is unchanged; the
\* worker then ends without touching the registry again.
C17_Claim ==
    [][\A w \in WorkerIds :
         /\ (autoScale /\ wpc[w] = "sleep" /\ ~NotEmptyOrStop
                /\ wpc'[w] \notin {"sleep", "lock"})
              => wpc'[w] = "reduce"
         /\ (wpc[w] = "reducing" /\ wpc'[w] # "reducing" /\ Len(threads) > 1)
              => /\ Registered(threads, w)
                 /\ Len(threads') = Len(threads) - 1
                 /\ \A v \in WorkerIds \cup {NoThread} :
                        Registered(threads', v) <=> (v # w /\ Registered(threads, v))
                 /\ tasks' = tasks
                 /\ wpc'[w] = "detach"
         /\ (wpc[w] = "detach" /\ wpc'[w] # "detach")
              => (wpc'[w] \in {"exited", Free} /\ threads' = threads)]_vars

\* C18: when a task body fails, the failure is stored in the task's handle
\* and the worker that ran it goes back to the top of its loop, with the
\* queue mutex released: the step ends no worker and leaves the registry
\* as it is.
C18_FailureIsolated ==
    [][\A w \in WorkerIds :
         (wpc[w] = "running" /\ wpc'[w] # "running") =>
            /\ handle'[wtask[w]] \in Outcomes
            /\ wpc'[w] = "lock"
            /\ tasksMutex' = NoThread
            /\ \A v \in WorkerIds \ {w} : wpc'[v] = wpc[v]
            /\ threads' = threads]_vars

\* The only worker of a pool that does not scale has run a task that
\* failed and has dequeued the next one.
C18_Witness ==
    /\ ~autoScale
    /\ threads = <<"w1">>
    /\ wpc["w1"] = "popped"
    /\ \E t \in TaskIds : handle[t] = "error" /\ runs[t] = 1

\* C19: no worker holds the queue mutex while it executes a task body.
C19_Claim == \A w \in WorkerIds : wpc[w] = "running" => tasksMutex # w

\* C20 (for the tasks that were in the queue when shutdown began): when the
\* destructor has returned the queue is empty and every one of these tasks
\* has been executed by a worker.
C20_Claim ==
    dpc = "done" =>
        /\ tasks = {}
        /\ \A t \in stopQueue : runs[t] = 1 /\ handle[t] \in Outcomes

\* C21: operator< is a strict weak ordering on the tasks of the queue: no
\* task is before itself, no two tasks are each before the other, and two
\* tasks of equal priority and equal timestamp are not ordered.
C21_Claim ==
    \A a, b \in tasks :
        /\ ~Less(a, a)
        /\ ~(Less(a, b) /\ Less(b, a))
        /\ (priority[a] = priority[b] /\ timestamp[a] = timestamp[b])
             => (~Less(a, b) /\ ~Less(b, a))

\* C22: no task in the queue has the priority INT_MIN of an empty Task,
\* whatever priority the caller of submit_task passed.
C22_Claim == \A t \in tasks : priority[t] # IntMin

\* C23: a submitter that is blocked in its wait when stop_flag is set leaves
\* the wait with the error and without enqueuing its task, also when the
\* queue has room by then.
C23_Claim ==
    [][\A s \in Submitters :
         (stopFlag /\ spc[s] \in {"sleep", "lock"} /\ spc'[s] \notin {"sleep", "lock"})
            => (tasks' = tasks /\ handle'[scur[s]] = "rejected")]_vars

\* C24: the destructor's loop over the registry is not interleaved with an
\* expand or reduce call that adds, erases or moves an entry: while the
\* destructor is iterating, the registry keeps its size.
C24_Claim ==
    [][(dpc \in {"loop", "prejoin", "joining"}) => Len(threads') = Len(threads)]_vars

\* The outcome of the submit_task calls made so far: a call that is still
\* in its wait has neither enqueued its task nor failed; a call that is past
\* the wait has enqueued its task or has thrown, never neither; a call that
\* threw did so on a stopped pool and its task was never enqueued or run.
SubmitOutcome ==
    \A t \in TaskIds :
        /\ (t >= nextId \/ \E s \in Submitters : scur[s] = t)
             => (handle[t] = "none" /\ t \notin tasks)
        /\ (t < nextId /\ \A s \in Submitters : scur[s] # t)
             => handle[t] # "none"
        /\ handle[t] = "rejected"
             => (stopFlag /\ t \notin tasks /\ runs[t] = 0)

\* C25: every submit_task call returns, as long as the pool exists (the
\* destructor has not returned and the process has not been terminated
\* before the call is over), with one of two outcomes: its task was
\* enqueued, or the caller got the stopped-pool error and the task was not
\* enqueued; at the size ceiling as anywhere else.
C25_SubmitReturns ==
    /\ []SubmitOutcome
    /\ \A s \in Submitters : (spc[s] # "idle") ~> (spc[s] = "idle" \/ ~Alive)

\* Both outcomes have happened and no call is in progress: one task is in
\* the queue, another was refused on the stopped pool; and the registry is at
\* its ceiling.
C25_Witness ==
    /\ \A s \in Submitters : spc[s] = "idle"
    /\ \E t \in tasks : handle[t] = "pending"
    /\ \E t \in TaskIds : handle[t] = "rejected"
    /\ Len(threads) = MaxThreads

\* C26: every task a worker pops is run by that worker, whatever its
\* priority: the step that follows the pop starts the task's body (its run
\* count goes up by one) and does not discard the task.
C26_Claim ==
    [][\A w \in WorkerIds :
         (wpc[w] = "popped" /\ wpc'[w] # "popped")
            => (wpc'[w] = "running" /\ runs'[wtask[w]] = runs[wtask[w]] + 1)]_vars

\* C27: once stopFlag_ is set the registry never grows.
C27_Claim ==
    [][stopFlag => (Len(threads') <= Len(threads))]_vars

\* C28: no thread holds tasksMutex_ and threadsMutex_ at the same time.
C28_Claim ==
    \A th \in WorkerIds \cup Submitters :
        ~(tasksMutex = th /\ threadsMutex = th)

====
